---- MODULE Spec2Model ----
(***************************************************************************)
(* The game session of App (src/unnamed/part_000, lines 129-307): the      *)
(* React state of the component, its click handlers, the callbacks it      *)
(* schedules with setTimeout / setInterval, its two effects, the results  *)
(* submission, the Hint button with getVocabHint, and the deck builder of  *)
(* initGame taken on its own.                                              *)
(*                                                                         *)
(* Card indices are 1-based here (0-based in the source).  A step of the   *)
(* model is one browser task: a click handler with the synchronous render  *)
(* and effects that follow a discrete event, or one timer / promise        *)
(* callback with the render of the updates it queued.  The effects of a    *)
(* render caused by a timer callback run in a later task (RunEffects).     *)
(***************************************************************************)
EXTENDS Integers, Sequences, FiniteSets, TLC

\* ---------------------------------------------------------------- bounds
\* number of entries of the vocabulary list in play
PoolSize == 2
\* the seconds counter is cut off here
MaxTimer == 1
\* number of sessions (initGame calls) explored
MaxSessions == 2
\* number of hints on their way at once: calls waiting and clear timers pending
MaxHints == 2
\* largest vocabulary list handed to the deck builder on its own
MaxPool == 21
\* number of exchanges a random sort makes in the deck builder on its own
MaxSwaps == 1

VARIABLES
    gameState,      \* useState<GameState>: score, timer, isGameStarted, isGameOver, matchedPairs
    cards,          \* useState<CardData[]>: the deck
    flippedCards,   \* useState<number[]>
    submitStatus,   \* useState 'idle' | 'submitting' | 'success' | 'error'
    timeouts,       \* pending resolution callbacks (setTimeout 600 / 1200), with their closures
    interval,       \* TRUE while the setInterval of the timer effect is registered
    pendingEffects, \* renders whose effects have not run yet, with the values they closed over
    fetches,        \* every fetch started by submitResultToSheet, in order
    hint,           \* useState<string | null>: the hint text on display
    isLoadingHint,  \* useState(false)
    hintCalls,      \* getVocabHint calls waiting for generateContent
    hintTimeouts,   \* pending setTimeout(() => setHint(null), 8000), oldest first
    deckJob,        \* a deck under construction, for the deck builder on its own
    session,        \* number of initGame calls so far
    overTimer,      \* gameState.timer in the render in which isGameOver became true, 0 before
    lastEvent       \* the handler or callback the last step ran, and the card index of a click

progVars == <<gameState, cards, flippedCards, submitStatus, timeouts, interval,
              pendingEffects, fetches>>
hintVars == <<hint, isLoadingHint, hintCalls, hintTimeouts>>
vars == <<gameState, cards, flippedCards, submitStatus, timeouts, interval,
          pendingEffects, fetches, hint, isLoadingHint, hintCalls, hintTimeouts,
          deckJob, session, overTimer, lastEvent>>

Range(s) == {s[i] : i \in 1..Len(s)}

Event(op, index) == [op |-> op, index |-> index]

Min(a, b) == IF a < b THEN a ELSE b

\* ------------------------------------------------------------ deck builder
\* the lists of the setup form; the second one holds a single entry
GameList == {"ListA", "ListB"}

\* the ids of the entries of each list
VOCABULARY ==
    [list \in GameList |->
        IF list = "ListA" THEN [i \in 1..PoolSize |-> i] ELSE <<PoolSize + 1>>]

Difficulty == {"Easy", "Medium", "Hard"}

\* what the name and class inputs of the setup form can hold
StudentNames == {"", "Ann"}
StudentClasses == {"", "7A"}

WordCount(difficulty) ==
    IF difficulty = "Hard" THEN 20 ELSE IF difficulty = "Medium" THEN 15 ELSE 10

\* every order a sort with a random comparator can leave a sequence in
RECURSIVE Orders(_)
Orders(S) ==
    IF S = {} THEN {<<>>}
    ELSE UNION {{<<x>> \o o : o \in Orders(S \ {x})} : x \in S}

Shuffles(s) == {[i \in 1..Len(s) |-> s[o[i]]] : o \in Orders(1..Len(s))}

TermCard(id) == [vocabId |-> id, uniqueId |-> <<id, "t">>, type |-> "term"]
\* the match card given the uniqueId of the term card
MatchCardTermId(id) == [vocabId |-> id, uniqueId |-> <<id, "t">>, type |-> "match"]
MatchCard(id) == [vocabId |-> id, uniqueId |-> <<id, "m">>, type |-> "match"]

\* pool.forEach: the term card and the match card of each item, in pool order
GameCards(pool) ==
    [k \in 1..(2 * Len(pool)) |->
        IF k % 2 = 1 THEN TermCard(pool[(k + 1) \div 2]) ELSE MatchCard(pool[k \div 2])]

\* the decks initGame can build from a list for a difficulty
Decks(list, difficulty) ==
    UNION {Shuffles(GameCards(SubSeq(sorted, 1, Min(WordCount(difficulty), Len(sorted))))) :
              sorted \in Shuffles(VOCABULARY[list])}

\* the same, tabulated once
DeckTable == [list \in GameList |-> [difficulty \in Difficulty |-> Decks(list, difficulty)]]

\* ------------------------------------------------------------------ state
\* hint === null
NoHint == "null"

\* the component after its first render
Mounted ==
    /\ gameState = [studentName |-> "", studentClass |-> "",
                    score |-> 0, timer |-> 0, isGameStarted |-> FALSE,
                    isGameOver |-> FALSE, matchedPairs |-> <<>>,
                    selectedList |-> "ListA", mode |-> "EnglishToArabic",
                    difficulty |-> "Easy"]
    /\ cards = <<>>
    /\ flippedCards = <<>>
    /\ submitStatus = "idle"
    /\ timeouts = <<>>
    /\ interval = FALSE
    /\ pendingEffects = <<>>
    /\ fetches = <<>>
    /\ hint = NoHint
    /\ isLoadingHint = FALSE
    /\ hintCalls = <<>>
    /\ hintTimeouts = <<>>
    /\ session = 0
    /\ overTimer = 0
    /\ lastEvent = Event("mount", 0)

\* no deck is built outside initGame
NoDeckJob == [stage |-> "none"]

Init == Mounted /\ deckJob = NoDeckJob

\* the values a render's effects close over
Closure(gs, status) ==
    [isGameStarted |-> gs.isGameStarted, isGameOver |-> gs.isGameOver,
     score |-> gs.score, timer |-> gs.timer, submitStatus |-> status,
     studentName |-> gs.studentName, studentClass |-> gs.studentClass,
     selectedList |-> gs.selectedList, difficulty |-> gs.difficulty, mode |-> gs.mode]

\* the timer effect: the interval exists exactly when the rendered state is
\* started and not over
IntervalFor(c) == c.isGameStarted /\ ~c.isGameOver

\* submitResultToSheet, up to the await: the early return
SubmitSkipped(status) == status = "submitting" \/ status = "success"

\* --------------------------------------------------------------- initGame
\* the updater without timer: 0
ResetStateKeepTimer(prev) ==
    [prev EXCEPT !.score = 0, !.isGameStarted = TRUE,
                 !.isGameOver = FALSE, !.matchedPairs = <<>>]

\* the updater of initGame (line 204)
ResetState(prev) ==
    [prev EXCEPT !.score = 0, !.timer = 0, !.isGameStarted = TRUE,
                 !.isGameOver = FALSE, !.matchedPairs = <<>>]

\* the name, class, difficulty and list inputs of the setup screen
SetStudentName(value) ==
    /\ ~gameState.isGameStarted
    /\ pendingEffects = <<>>
    /\ gameState' = [gameState EXCEPT !.studentName = value]
    /\ lastEvent' = Event("setup", 0)
    /\ UNCHANGED <<hintVars, deckJob, overTimer>>
    /\ UNCHANGED <<cards, flippedCards, submitStatus, timeouts, interval,
                   pendingEffects, fetches, session>>

SetStudentClass(value) ==
    /\ ~gameState.isGameStarted
    /\ pendingEffects = <<>>
    /\ gameState' = [gameState EXCEPT !.studentClass = value]
    /\ lastEvent' = Event("setup", 0)
    /\ UNCHANGED <<hintVars, deckJob, overTimer>>
    /\ UNCHANGED <<cards, flippedCards, submitStatus, timeouts, interval,
                   pendingEffects, fetches, session>>

SetDifficulty(value) ==
    /\ ~gameState.isGameStarted
    /\ pendingEffects = <<>>
    /\ gameState' = [gameState EXCEPT !.difficulty = value]
    /\ lastEvent' = Event("setup", 0)
    /\ UNCHANGED <<hintVars, deckJob, overTimer>>
    /\ UNCHANGED <<cards, flippedCards, submitStatus, timeouts, interval,
                   pendingEffects, fetches, session>>

SetSelectedList(value) ==
    /\ ~gameState.isGameStarted
    /\ pendingEffects = <<>>
    /\ gameState' = [gameState EXCEPT !.selectedList = value]
    /\ lastEvent' = Event("setup", 0)
    /\ UNCHANGED <<hintVars, deckJob, overTimer>>
    /\ UNCHANGED <<cards, flippedCards, submitStatus, timeouts, interval,
                   pendingEffects, fetches, session>>

\* the Start Training button; it is disabled without a name and a class
InitGame ==
    /\ ~gameState.isGameStarted
    /\ gameState.studentName # "" /\ gameState.studentClass # ""
    /\ pendingEffects = <<>>
    /\ session < MaxSessions
    /\ \E deck \in DeckTable[gameState.selectedList][gameState.difficulty] :
          cards' = deck
    /\ submitStatus' = "idle"
    /\ flippedCards' = <<>>
    /\ gameState' = ResetState(gameState)
    /\ interval' = IntervalFor(Closure(gameState', submitStatus'))
    /\ session' = session + 1
    /\ lastEvent' = Event("initGame", 0)
    /\ overTimer' = 0
    /\ UNCHANGED <<hintVars, deckJob>>
    /\ UNCHANGED <<timeouts, pendingEffects, fetches>>

\* -------------------------------------------------------- handleCardClick
\* the guard without its second test
RejectedNoIncludes(index) ==
    \/ Len(flippedCards) = 2
    \/ cards[index].vocabId \in Range(gameState.matchedPairs)

Rejected(index) ==
    \/ Len(flippedCards) = 2
    \/ index \in Range(flippedCards)
    \/ cards[index].vocabId \in Range(gameState.matchedPairs)

Resolution(newFlipped) ==
    [kind |-> IF cards[newFlipped[1]].vocabId = cards[newFlipped[2]].vocabId
              THEN "match" ELSE "mismatch",
     vocabId |-> cards[newFlipped[1]].vocabId,
     deckLen |-> Len(cards),
     flipped |-> newFlipped,
     session |-> session]

\* the mismatch timeout scheduled outside the test of newFlipped.length
ScheduledAlways(newFlipped) ==
    IF Len(newFlipped) = 2 /\ Resolution(newFlipped).kind = "match"
    THEN Append(timeouts, Resolution(newFlipped))
    ELSE Append(timeouts, [kind |-> "mismatch",
                           vocabId |-> cards[newFlipped[1]].vocabId,
                           deckLen |-> Len(cards),
                           flipped |-> newFlipped,
                           session |-> session])

\* no callback scheduled for two cards that do not match
ScheduledMatchOnly(newFlipped) ==
    IF Len(newFlipped) = 2 /\ Resolution(newFlipped).kind = "match"
    THEN Append(timeouts, Resolution(newFlipped))
    ELSE timeouts

\* the pending callbacks after a flip: a resolution is scheduled when the
\* selection reaches two cards (line 212)
Scheduled(newFlipped) ==
    IF Len(newFlipped) = 2
    THEN Append(timeouts, Resolution(newFlipped))
    ELSE timeouts

HandleCardClick(index) ==
    /\ gameState.isGameStarted /\ ~gameState.isGameOver
    /\ pendingEffects = <<>>
    /\ lastEvent' = Event("handleCardClick", index)
    /\ UNCHANGED <<hintVars, deckJob, overTimer>>
    /\ UNCHANGED <<gameState, cards, submitStatus, interval, pendingEffects, fetches, session>>
    /\ IF Rejected(index)
       THEN UNCHANGED <<flippedCards, timeouts>>
       ELSE LET newFlipped == Append(flippedCards, index) IN
            /\ flippedCards' = newFlipped
            /\ timeouts' = Scheduled(newFlipped)

\* ------------------------------------------------- resolution callbacks
\* the updater with the score left alone
MatchedStateNoScore(prev, t) ==
    LET newMatched == Append(prev.matchedPairs, t.vocabId) IN
    [prev EXCEPT !.matchedPairs = newMatched,
                 !.isGameOver = (Len(newMatched) * 2 = t.deckLen)]

\* the updater comparing with cards.length instead of cards.length / 2
MatchedStateOverAtDeckLen(prev, t) ==
    LET newMatched == Append(prev.matchedPairs, t.vocabId) IN
    [prev EXCEPT !.matchedPairs = newMatched,
                 !.score = prev.score + 10,
                 !.isGameOver = (Len(newMatched) = t.deckLen)]

\* the updater with isGameOver not recomputed
MatchedStateNoOver(prev, t) ==
    LET newMatched == Append(prev.matchedPairs, t.vocabId) IN
    [prev EXCEPT !.matchedPairs = newMatched,
                 !.score = prev.score + 10]

\* the updater replacing matchedPairs instead of extending it
MatchedStateReplace(prev, t) ==
    LET newMatched == <<t.vocabId>> IN
    [prev EXCEPT !.matchedPairs = newMatched,
                 !.score = prev.score + 10,
                 !.isGameOver = (Len(prev.matchedPairs) * 2 + 2 = t.deckLen)]

\* the updater of the match callback (setGameState(prev => ...)); cards and
\* newFlipped are the values the callback closed over
MatchedState(prev, t) ==
    LET newMatched == Append(prev.matchedPairs, t.vocabId) IN
    [prev EXCEPT !.matchedPairs = newMatched,
                 !.score = prev.score + 10,
                 !.isGameOver = (Len(newMatched) * 2 = t.deckLen)]

\* the callback without setFlippedCards([])
ResolvedFlippedKept(t) == t.flipped

\* the callback turning back only the second card
ResolvedFlippedFirst(t) == <<t.flipped[1]>>

\* the selection a resolution callback leaves: setFlippedCards([])
ResolvedFlipped(t) == <<>>

Remove(s, i) == [k \in 1..(Len(s) - 1) |-> IF k < i THEN s[k] ELSE s[k + 1]]

\* a render queues its effects when one of their dependencies changed
EffectsAfter(old, new, status) ==
    IF old.isGameStarted # new.isGameStarted \/ old.isGameOver # new.isGameOver
    THEN Append(pendingEffects, Closure(new, status))
    ELSE pendingEffects

\* the 600 ms callback; the root is made with createRoot (src/index.tsx, line
\* 18), so its setGameState and setFlippedCards are rendered together
MatchTimeout(i) ==
    /\ i \in 1..Len(timeouts)
    /\ timeouts[i].kind = "match"
    /\ gameState' = MatchedState(gameState, timeouts[i])
    /\ flippedCards' = ResolvedFlipped(timeouts[i])
    /\ timeouts' = Remove(timeouts, i)
    /\ pendingEffects' = EffectsAfter(gameState, gameState', submitStatus)
    /\ lastEvent' = Event("match", 0)
    /\ overTimer' = IF gameState'.isGameOver /\ ~gameState.isGameOver
                     THEN gameState'.timer ELSE overTimer
    /\ UNCHANGED <<hintVars, deckJob>>
    /\ UNCHANGED <<cards, submitStatus, interval, fetches, session>>

\* the 1200 ms callback
MismatchTimeout(i) ==
    /\ i \in 1..Len(timeouts)
    /\ timeouts[i].kind = "mismatch"
    /\ flippedCards' = ResolvedFlipped(timeouts[i])
    /\ timeouts' = Remove(timeouts, i)
    /\ lastEvent' = Event("mismatch", 0)
    /\ UNCHANGED <<hintVars, deckJob, overTimer>>
    /\ UNCHANGED <<gameState, cards, submitStatus, interval, pendingEffects, fetches, session>>

\* ------------------------------------------------------------------- tick
\* the setInterval callback; it exists while the interval is registered
Tick ==
    /\ interval
    /\ gameState.timer < MaxTimer
    /\ gameState' = [gameState EXCEPT !.timer = gameState.timer + 1]
    /\ lastEvent' = Event("tick", 0)
    /\ UNCHANGED <<hintVars, deckJob, overTimer>>
    /\ UNCHANGED <<cards, flippedCards, submitStatus, timeouts, interval,
                   pendingEffects, fetches, session>>

\* ---------------------------------------------------------------- effects
\* the body built from the latest state instead of the render's
RecordLatest(c) ==
    [studentName |-> c.studentName, studentClass |-> c.studentClass,
     score |-> c.score, timer |-> gameState.timer, selectedList |-> c.selectedList,
     difficulty |-> c.difficulty, mode |-> c.mode,
     session |-> session, done |-> FALSE]

\* the body the results record is built from, and the session that sent it
Record(c) ==
    [studentName |-> c.studentName, studentClass |-> c.studentClass,
     score |-> c.score, timer |-> c.timer, selectedList |-> c.selectedList,
     difficulty |-> c.difficulty, mode |-> c.mode,
     session |-> session, done |-> FALSE]

\* the effects of the oldest render that still has them pending: the timer
\* effect (cleanup, then the interval again if started and not over) and the
\* submission effect
RunEffects ==
    /\ pendingEffects # <<>>
    /\ LET c == Head(pendingEffects) IN
        /\ interval' = IntervalFor(c)
        /\ IF c.isGameOver /\ ~SubmitSkipped(c.submitStatus)
           THEN /\ submitStatus' = "submitting"
                /\ fetches' = Append(fetches, Record(c))
           ELSE UNCHANGED <<submitStatus, fetches>>
    /\ pendingEffects' = Tail(pendingEffects)
    /\ lastEvent' = Event("effects", 0)
    /\ UNCHANGED <<hintVars, deckJob, overTimer>>
    /\ UNCHANGED <<gameState, cards, flippedCards, timeouts, session>>

\* the status a rejected fetch leaves when its catch does nothing
SettledStatusNoCatch(ok) == IF ok THEN "success" ELSE "submitting"

\* submitResultToSheet after the await: line 182, or the catch of line 184
SettledStatus(ok) == IF ok THEN "success" ELSE "error"

\* the fetch of submitResultToSheet settles: resolved (ok) or rejected
FetchSettles(i, ok) ==
    /\ i \in 1..Len(fetches)
    /\ ~fetches[i].done
    /\ fetches' = [fetches EXCEPT ![i].done = TRUE]
    /\ submitStatus' = SettledStatus(ok)
    /\ lastEvent' = Event(IF ok THEN "fetchResolved" ELSE "fetchRejected", 0)
    /\ UNCHANGED <<hintVars, deckJob, overTimer>>
    /\ UNCHANGED <<gameState, cards, flippedCards, timeouts, interval, pendingEffects, session>>

\* ---------------------------------------------------------- New Challenge
\* the updater also clearing isGameOver
ChallengeStateNotOver(prev) == [prev EXCEPT !.isGameStarted = FALSE, !.isGameOver = FALSE]

\* the updater of the New Challenge button
ChallengeState(prev) == [prev EXCEPT !.isGameStarted = FALSE]

\* the button of the game-over screen
NewChallenge ==
    /\ gameState.isGameStarted /\ gameState.isGameOver
    /\ pendingEffects = <<>>
    /\ gameState' = ChallengeState(gameState)
    /\ interval' = IntervalFor(Closure(gameState', submitStatus))
    /\ lastEvent' = Event("newChallenge", 0)
    /\ UNCHANGED <<hintVars, deckJob, overTimer>>
    /\ UNCHANGED <<cards, flippedCards, submitStatus, timeouts, pendingEffects, fetches, session>>

Next ==
    \/ \E value \in StudentNames : SetStudentName(value)
    \/ \E value \in StudentClasses : SetStudentClass(value)
    \/ InitGame
    \/ \E index \in 1..Len(cards) : HandleCardClick(index)
    \/ \E i \in 1..Len(timeouts) : MatchTimeout(i)
    \/ \E i \in 1..Len(timeouts) : MismatchTimeout(i)
    \/ Tick
    \/ RunEffects
    \/ \E i \in 1..Len(fetches) : \E ok \in BOOLEAN : FetchSettles(i, ok)
    \/ NewChallenge

\* the game with the difficulty and the list of the first render
Spec == Init /\ [][Next]_vars

\* the options of the difficulty select that the player picks here; the
\* word counts of all three options are exercised by the deck builder
DifficultyChoices == {"Easy", "Hard"}

\* the game with every input of the setup form
NextForm ==
    \/ Next
    \/ \E value \in DifficultyChoices : SetDifficulty(value)
    \/ \E value \in GameList : SetSelectedList(value)

SpecForm == Init /\ [][NextForm]_vars

\* ------------------------------------------------------------------ hints
\* getVocabHint without the catch: a failed generateContent rejects
GetVocabHintRethrow(version, apiKey, outcome) ==
    IF ~apiKey
    THEN [settled |-> "resolved", network |-> FALSE,
          value |-> "Complete the match to learn this word!"]
    ELSE IF outcome = "error"
    THEN [settled |-> "rejected", network |-> TRUE, value |-> "undefined"]
    ELSE [settled |-> "resolved", network |-> TRUE,
          value |-> IF outcome = "text" THEN "sentence"
                    ELSE "Match the terms to learn more."]

\* getVocabHint of part_000 (lines 8-30) and of index.tsx (lines 24-47):
\* how the promise settles, its value, and whether generateContent was
\* called.  outcome is what generateContent does: it resolves with a text,
\* resolves with an empty text, or fails.
GetVocabHint(version, apiKey, outcome) ==
    IF ~apiKey
    THEN [settled |-> "resolved", network |-> FALSE,
          value |-> "Complete the match to learn this word!"]
    ELSE [settled |-> "resolved", network |-> TRUE,
          value |-> IF outcome = "text" THEN "sentence"
                    ELSE IF outcome = "empty" THEN "Match the terms to learn more."
                    ELSE IF version = "part_000" THEN "Try matching the terms!"
                    ELSE "Keep matching! You are doing great!"]

Versions == {"part_000", "index"}

Outcomes == {"text", "empty", "error"}

\* the filter without its test of the card type
UnmatchedAnyType(deck, matchedPairs) ==
    {i \in 1..Len(deck) : deck[i].vocabId \notin Range(matchedPairs)}

\* the cards showHint draws from (line 229)
Unmatched(deck, matchedPairs) ==
    {i \in 1..Len(deck) : /\ deck[i].vocabId \notin Range(matchedPairs)
                          /\ deck[i].type = "term"}

\* setHint(`Hint: ${hintText}`) and the timer that clears it (lines 236-238)
Surface(hintText) ==
    /\ hint' = "Hint: " \o hintText
    /\ hintTimeouts' = Append(hintTimeouts, "setHint(null)")

\* the Hint button; it is disabled while isLoadingHint.  Without an API key
\* the promise is already resolved and the rest of showHint runs in the
\* same task.
ShowHint(apiKey) ==
    /\ gameState.isGameStarted /\ ~gameState.isGameOver
    /\ pendingEffects = <<>>
    /\ ~isLoadingHint
    /\ Len(hintCalls) + Len(hintTimeouts) < MaxHints
    /\ UNCHANGED <<progVars, deckJob, session, overTimer>>
    /\ IF Unmatched(cards, gameState.matchedPairs) = {}
       THEN /\ lastEvent' = Event("showHint", 0)
            /\ UNCHANGED hintVars
       ELSE \E randomCard \in Unmatched(cards, gameState.matchedPairs) :
            /\ lastEvent' = Event(IF apiKey THEN "showHint" ELSE "showHintNoKey", randomCard)
            /\ IF cards[randomCard].vocabId \notin Range(VOCABULARY[gameState.selectedList])
               THEN UNCHANGED hintVars
               ELSE IF apiKey
                    THEN /\ isLoadingHint' = TRUE
                         /\ hintCalls' = Append(hintCalls, "generateContent")
                         /\ UNCHANGED <<hint, hintTimeouts>>
                    ELSE /\ Surface(GetVocabHint("part_000", FALSE, "text").value)
                         /\ UNCHANGED <<isLoadingHint, hintCalls>>

\* generateContent settles and showHint goes on after its await
HintSettles(outcome) ==
    /\ hintCalls # <<>>
    /\ hintCalls' = Tail(hintCalls)
    /\ UNCHANGED <<progVars, deckJob, session, overTimer>>
    /\ LET r == GetVocabHint("part_000", TRUE, outcome) IN
       IF r.settled = "resolved"
       THEN /\ Surface(r.value)
            /\ isLoadingHint' = FALSE
            /\ lastEvent' = Event(IF outcome = "error" THEN "hintFailed" ELSE "hintSettled", 0)
       ELSE /\ lastEvent' = Event("hintRejected", 0)
            /\ UNCHANGED <<hint, isLoadingHint, hintTimeouts>>

\* the oldest setTimeout(() => setHint(null), 8000) fires; the event tells
\* how many younger clear timers are still pending
HintTimeout ==
    /\ hintTimeouts # <<>>
    /\ hint' = NoHint
    /\ hintTimeouts' = Tail(hintTimeouts)
    /\ lastEvent' = Event("hintTimeout", Len(hintTimeouts) - 1)
    /\ UNCHANGED <<progVars, deckJob, session, overTimer, isLoadingHint, hintCalls>>

\* the game with the Hint button
NextHint ==
    \/ Next
    \/ \E apiKey \in BOOLEAN : ShowHint(apiKey)
    \/ \E outcome \in Outcomes : HintSettles(outcome)
    \/ HintTimeout

SpecHint == Init /\ [][NextHint]_vars

\* ------------------------------------------- the deck builder on its own
\* Lines 191-202 of initGame, step by step, for lists longer than every
\* wordCount.  A sort with a random comparator is a series of exchanges of
\* neighbours.

\* the sequence with the entries at i and i + 1 exchanged
Swap(s, i) ==
    [k \in 1..Len(s) |-> IF k = i THEN s[i + 1] ELSE IF k = i + 1 THEN s[i] ELSE s[k]]

\* a list of n entries with unique ids and a difficulty: line 192 starts
DeckJobs ==
    {[stage |-> "sortPool", difficulty |-> difficulty, size |-> n,
      pool |-> [i \in 1..n |-> i], gameCards |-> <<>>, swaps |-> 0] :
        n \in 0..MaxPool, difficulty \in Difficulty}

InitDeck == Mounted /\ deckJob \in DeckJobs

\* [...VOCABULARY[list]].sort(() => Math.random() - 0.5), one exchange
SortPool(i) ==
    /\ deckJob.stage = "sortPool"
    /\ deckJob.swaps < MaxSwaps
    /\ i \in 1..(Len(deckJob.pool) - 1)
    /\ deckJob' = [deckJob EXCEPT !.pool = Swap(deckJob.pool, i), !.swaps = @ + 1]
    /\ UNCHANGED <<progVars, hintVars, session, overTimer, lastEvent>>

\* .slice(0, wordCount) and pool.forEach (lines 192-201)
BuildGameCards ==
    /\ deckJob.stage = "sortPool"
    /\ deckJob' = [deckJob EXCEPT
          !.stage = "sortCards",
          !.pool = SubSeq(deckJob.pool, 1,
                          Min(WordCount(deckJob.difficulty), Len(deckJob.pool))),
          !.gameCards = GameCards(SubSeq(deckJob.pool, 1,
                          Min(WordCount(deckJob.difficulty), Len(deckJob.pool)))),
          !.swaps = 0]
    /\ UNCHANGED <<progVars, hintVars, session, overTimer, lastEvent>>

\* gameCards.sort(() => Math.random() - 0.5), one exchange
SortCards(i) ==
    /\ deckJob.stage = "sortCards"
    /\ deckJob.swaps < MaxSwaps
    /\ i \in 1..(Len(deckJob.gameCards) - 1)
    /\ deckJob' = [deckJob EXCEPT !.gameCards = Swap(deckJob.gameCards, i), !.swaps = @ + 1]
    /\ UNCHANGED <<progVars, hintVars, session, overTimer, lastEvent>>

\* setCards(...) (line 202)
SetCards ==
    /\ deckJob.stage = "sortCards"
    /\ deckJob' = [deckJob EXCEPT !.stage = "done"]
    /\ UNCHANGED <<progVars, hintVars, session, overTimer, lastEvent>>

NextDeck ==
    \/ \E i \in 1..MaxPool : SortPool(i)
    \/ BuildGameCards
    \/ \E i \in 1..(2 * MaxPool) : SortCards(i)
    \/ SetCards

SpecDeck == InitDeck /\ [][NextDeck]_vars

\* ------------------------------------------------ the game with a player
\* a pending resolution callback fires
Resolve == \E i \in 1..Len(timeouts) : MatchTimeout(i) \/ MismatchTimeout(i)

\* the player flips a card while none is selected
FirstFlip ==
    \E index \in 1..Len(cards) :
        /\ flippedCards = <<>>
        /\ ~Rejected(index)
        /\ HandleCardClick(index)

\* the player flips the partner of the selected card
PartnerFlip ==
    \E index \in 1..Len(cards) :
        /\ Len(flippedCards) = 1
        /\ ~Rejected(index)
        /\ cards[index].vocabId = cards[flippedCards[1]].vocabId
        /\ HandleCardClick(index)

\* timers fire and effects run (the browser's event loop); the player goes
\* on flipping, and again and again flips the partner of the selected card
SpecLive ==
    /\ Init /\ [][Next]_vars
    /\ WF_vars(Resolve)
    /\ WF_vars(RunEffects)
    /\ WF_vars(FirstFlip)
    /\ SF_vars(PartnerFlip)

\* ================================================================ claims
VocabIdAt(index) == cards[index].vocabId

MatchedIds == Range(gameState.matchedPairs)

\* fetches started by submitResultToSheet for session s
Submitted(s) == Cardinality({i \in 1..Len(fetches) : fetches[i].session = s})

\* the submission effect of session s has had its turn
OverHandled(s) ==
    s < session \/ (gameState.isGameOver /\ pendingEffects = <<>>)

\* C1: every session whose isGameOver became true has started exactly one
\* results submission, and a session not yet over has started none.
C1_SubmittedExactlyOnce ==
    \A s \in 1..session : Submitted(s) = IF OverHandled(s) THEN 1 ELSE 0

\* C2: score is 10 times the number of entries of matchedPairs.
C2_ScoreIsTenPerPair == gameState.score = 10 * Len(gameState.matchedPairs)

C2_Witness ==
    /\ session = 2
    /\ Len(gameState.matchedPairs) = 2
    /\ gameState.score = 20

\* C3 as stated: isGameOver is true exactly when twice the number of matched
\* vocabIds is the number of cards of the deck.
C3_OverIffAllMatched ==
    gameState.isGameOver <=> (Len(gameState.matchedPairs) * 2 = Len(cards))

\* C3 amended: the same, in every state whose deck is not empty.
C3_OverIffAllMatchedNonEmpty ==
    Len(cards) > 0 => C3_OverIffAllMatched

C3_Witness ==
    /\ Len(cards) > 0
    /\ gameState.isGameOver
    /\ Len(gameState.matchedPairs) * 2 = Len(cards)

\* the three reasons of C5 for which a click is refused
C5_Refused(index) ==
    \/ Len(flippedCards) = 2
    \/ \E k \in 1..Len(flippedCards) : flippedCards[k] = index
    \/ \E k \in 1..Len(gameState.matchedPairs) :
          gameState.matchedPairs[k] = VocabIdAt(index)

\* C5: a handleCardClick(index) with two cards already flipped, or index
\* already flipped, or the card's vocabId already matched, changes nothing and
\* schedules no resolution.
C5_RefusedClickIsNoOp ==
    [][\A index \in 1..Len(cards) :
          (lastEvent' = Event("handleCardClick", index) /\ C5_Refused(index))
              => UNCHANGED progVars]_vars

C5_Witness ==
    /\ lastEvent.op = "handleCardClick"
    /\ Len(flippedCards) = 1
    /\ VocabIdAt(lastEvent.index) \in MatchedIds

\* C6: flippedCards holds at most two card indices, all different, none of a
\* card whose vocabId is in matchedPairs.
C6_FlippedWellFormed ==
    /\ Len(flippedCards) \in {0, 1, 2}
    /\ \A j, k \in 1..Len(flippedCards) : j # k => flippedCards[j] # flippedCards[k]
    /\ \A k \in 1..Len(flippedCards) :
          /\ flippedCards[k] \in 1..Len(cards)
          /\ VocabIdAt(flippedCards[k]) \notin MatchedIds

C6_Witness ==
    /\ Len(flippedCards) = 2
    /\ Len(gameState.matchedPairs) >= 1

\* C7: a tick (timer increased by 1) happens only while isGameStarted is true
\* and isGameOver is false, and changes nothing but timer.
C7_TickOnlyWhileRunning ==
    [][gameState'.timer = gameState.timer + 1
          => /\ gameState.isGameStarted /\ ~gameState.isGameOver
             /\ gameState' = [gameState EXCEPT !.timer = gameState.timer + 1]
             /\ UNCHANGED <<cards, flippedCards, submitStatus, timeouts, fetches>>]_vars

\* two cards with the same vocabId are flipped and wait for their resolution
MatchWaiting ==
    /\ Len(flippedCards) = 2
    /\ VocabIdAt(flippedCards[1]) = VocabIdAt(flippedCards[2])

\* two cards with different vocabIds are flipped and wait for their resolution
MismatchWaiting ==
    /\ Len(flippedCards) = 2
    /\ VocabIdAt(flippedCards[1]) # VocabIdAt(flippedCards[2])

SessionChanged ==
    \/ gameState'.matchedPairs # gameState.matchedPairs
    \/ gameState'.score # gameState.score
    \/ gameState'.isGameOver # gameState.isGameOver
    \/ flippedCards' # flippedCards

\* C8: with a matching pair flipped, the step that changes any of
\* matchedPairs, score, isGameOver or flippedCards changes them all: the
\* vocabId is in matchedPairs, score is 10 higher, flippedCards is empty and
\* isGameOver says whether every pair of the deck is matched.
C8_MatchResolvesAtOnce ==
    [][(MatchWaiting /\ SessionChanged)
          => /\ VocabIdAt(flippedCards[1]) \in Range(gameState'.matchedPairs)
             /\ Len(gameState'.matchedPairs) = Len(gameState.matchedPairs) + 1
             /\ gameState'.score = gameState.score + 10
             /\ flippedCards' = <<>>
             /\ gameState'.isGameOver =
                   (\A k \in 1..Len(cards) :
                       cards[k].vocabId \in Range(gameState'.matchedPairs))]_vars

C8_Witness ==
    /\ lastEvent.op = "match"
    /\ flippedCards = <<>>
    /\ Len(gameState.matchedPairs) = 1
    /\ ~gameState.isGameOver

\* C9: with two different cards flipped, the step that ends the selection
\* empties flippedCards, leaves score, matchedPairs, timer and isGameOver as
\* they were, and afterwards neither of the two cards is refused.
C9_MismatchOnlyClears ==
    [][(MismatchWaiting /\ (SessionChanged \/ timeouts' # timeouts))
          => /\ flippedCards' = <<>>
             /\ gameState' = gameState
             /\ cards' = cards
             /\ gameState.isGameStarted /\ ~gameState.isGameOver
             /\ \A k \in 1..2 :
                   /\ Len(flippedCards') # 2
                   /\ flippedCards[k] \notin Range(flippedCards')
                   /\ cards'[flippedCards[k]].vocabId \notin Range(gameState'.matchedPairs)]_vars

C9_Witness ==
    /\ lastEvent.op = "mismatch"
    /\ flippedCards = <<>>
    /\ gameState.isGameStarted /\ ~gameState.isGameOver
    /\ session = 2

IsPrefix(s, t) == Len(s) <= Len(t) /\ \A k \in 1..Len(s) : s[k] = t[k]

\* C10: matchedPairs has no vocabId twice and only vocabIds of the deck; a
\* step other than initGame only extends it, by one entry at most, never
\* lowers score, and changes score only by +10 when a matching pair resolves.
C10_MatchedOnlyGrows ==
    /\ [](/\ \A j, k \in 1..Len(gameState.matchedPairs) :
                j # k => gameState.matchedPairs[j] # gameState.matchedPairs[k]
          /\ \A k \in 1..Len(gameState.matchedPairs) :
                \E c \in 1..Len(cards) : cards[c].vocabId = gameState.matchedPairs[k])
    /\ [][lastEvent'.op # "initGame"
            => /\ IsPrefix(gameState.matchedPairs, gameState'.matchedPairs)
               /\ Len(gameState'.matchedPairs) <= Len(gameState.matchedPairs) + 1
               /\ gameState'.score >= gameState.score
               /\ gameState'.score # gameState.score
                     => /\ gameState'.score = gameState.score + 10
                        /\ MatchWaiting
                        /\ Len(gameState'.matchedPairs) = Len(gameState.matchedPairs) + 1]_vars

C10_Witness ==
    /\ Len(gameState.matchedPairs) = 2
    /\ gameState.score = 20
    /\ lastEvent.op = "match"

\* the fields initGame is not to touch
FormFields(gs) ==
    <<gs.studentName, gs.studentClass, gs.selectedList, gs.mode, gs.difficulty>>

\* C12: initGame leaves score = 0, timer = 0, matchedPairs and flippedCards
\* empty, isGameStarted true, isGameOver false and submitStatus 'idle', and
\* does not change studentName, studentClass, selectedList, mode, difficulty.
C12_InitGameResets ==
    [][lastEvent'.op = "initGame"
          => /\ gameState'.score = 0
             /\ gameState'.timer = 0
             /\ gameState'.matchedPairs = <<>>
             /\ flippedCards' = <<>>
             /\ gameState'.isGameStarted
             /\ ~gameState'.isGameOver
             /\ submitStatus' = "idle"
             /\ FormFields(gameState') = FormFields(gameState)]_vars

C12_Witness ==
    /\ lastEvent.op = "initGame"
    /\ session = 2
    /\ gameState.selectedList = "ListB"
    /\ gameState.difficulty = "Hard"
    /\ fetches # <<>>

\* C14: at most one resolution callback is pending, it is pending only with
\* two cards flipped, and one is scheduled only when none is pending.
C14_OneResolutionPending ==
    /\ [](/\ Len(timeouts) <= 1
          /\ timeouts # <<>> => Len(flippedCards) = 2)
    /\ [][Len(timeouts') > Len(timeouts) => timeouts = <<>>]_vars

C14_Witness ==
    /\ Len(timeouts) = 1
    /\ lastEvent.op = "handleCardClick"
    /\ lastEvent.index \notin Range(flippedCards)

\* C16: a rejected fetch sets submitStatus to 'error' and changes nothing
\* else; no second fetch is started for a session; and with submitStatus
\* 'error' the New Challenge and Start Training buttons still work.
C16_FailedSubmitOnlyFlags ==
    /\ [][lastEvent'.op = "fetchRejected"
            => /\ submitStatus' = "error"
               /\ UNCHANGED <<gameState, cards, flippedCards, timeouts>>
               /\ Len(fetches') = Len(fetches)]_vars
    /\ [](\A s \in 1..session : Submitted(s) <= 1)
    /\ [](submitStatus = "error"
            => /\ (gameState.isGameStarted /\ gameState.isGameOver /\ pendingEffects = <<>>)
                     => ENABLED NewChallenge
               /\ (~gameState.isGameStarted /\ gameState.studentName # ""
                     /\ gameState.studentClass # "" /\ session < MaxSessions)
                     => ENABLED InitGame)

C16_Witness ==
    /\ lastEvent.op = "fetchRejected"
    /\ submitStatus = "error"
    /\ gameState.isGameStarted /\ gameState.isGameOver

\* C17: the record of a submission holds score = 10 x (pairs of the deck),
\* the timer of the render in which isGameOver became true, and the name,
\* class, list, difficulty and mode of the session, which do not change
\* while the session is started.
C17_RecordIsFinalStats ==
    [][/\ Len(fetches') > Len(fetches)
          => LET r == fetches'[Len(fetches')] IN
             /\ r.score = 10 * (Len(cards) \div 2)
             /\ r.timer = overTimer
             /\ r.session = session
             /\ <<r.studentName, r.studentClass, r.selectedList, r.mode, r.difficulty>>
                   = FormFields(gameState)
       /\ (gameState.isGameStarted /\ gameState'.isGameStarted)
          => FormFields(gameState') = FormFields(gameState)]_vars

C17_Witness ==
    /\ fetches # <<>>
    /\ fetches[Len(fetches)].session = 2
    /\ fetches[Len(fetches)].difficulty = "Hard"
    /\ fetches[Len(fetches)].timer = 0
    /\ gameState.timer = 1

\* C20: New Challenge is taken with isGameOver true, sets isGameStarted to
\* false and changes nothing else; neither it nor initGame starts a fetch.
C20_NewChallengeOnlyLeaves ==
    [][/\ lastEvent'.op = "newChallenge"
          => /\ gameState.isGameOver
             /\ gameState' = [gameState EXCEPT !.isGameStarted = FALSE]
             /\ UNCHANGED <<cards, flippedCards, submitStatus, timeouts, fetches>>
       /\ lastEvent'.op = "initGame" => fetches' = fetches]_vars

C20_Witness ==
    /\ lastEvent.op = "newChallenge"
    /\ ~gameState.isGameStarted
    /\ gameState.isGameOver
    /\ gameState.score = 20
\* C13: a hint on display is removed only by the clear timer that was
\* scheduled when it was set (the youngest one pending), so it stays for
\* the full 8000 ms; the clear timer of an earlier hint does not remove it.
C13_HintShownFullDuration ==
    [][(hint # NoHint /\ hint' = NoHint)
          => /\ lastEvent'.op = "hintTimeout"
             /\ hintTimeouts' = <<>>]_vars

\* the strings getVocabHint can resolve with
HintTexts ==
    {"Complete the match to learn this word!", "sentence",
     "Match the terms to learn more.", "Try matching the terms!",
     "Keep matching! You are doing great!"}

\* C15: getVocabHint always resolves with a string; without a key it is the
\* fixed fallback and generateContent is not called; when generateContent
\* fails it is a fallback string; and the step that surfaces the fallback
\* of a failure changes nothing of the session.
C15_HintAlwaysResolves ==
    /\ [](\A version \in Versions, apiKey \in BOOLEAN, outcome \in Outcomes :
            LET r == GetVocabHint(version, apiKey, outcome) IN
            /\ r.settled = "resolved"
            /\ r.value \in HintTexts
            /\ ~apiKey => /\ r.value = "Complete the match to learn this word!"
                          /\ ~r.network
            /\ (apiKey /\ outcome = "error")
                  => r.value \in {"Try matching the terms!",
                                  "Keep matching! You are doing great!"})
    /\ [](lastEvent.op # "hintRejected")
    /\ [][lastEvent'.op = "showHintNoKey"
            => /\ hint' = "Hint: Complete the match to learn this word!"
               /\ hintCalls' = hintCalls
               /\ ~isLoadingHint']_vars
    /\ [][lastEvent'.op = "hintFailed"
            => /\ hint' = "Hint: Try matching the terms!"
               /\ ~isLoadingHint'
               /\ UNCHANGED <<gameState, cards, flippedCards, timeouts, submitStatus>>]_vars

C15_Witness ==
    /\ lastEvent.op = "hintFailed"
    /\ hint = "Hint: Try matching the terms!"
    /\ gameState.score = 10
    /\ Len(flippedCards) = 1

\* every order in which vocabIds of the deck can have been matched
MatchedOrders(deck) ==
    LET ids == {deck[i].vocabId : i \in 1..Len(deck)} IN
    UNION {[1..k -> ids] : k \in 0..Cardinality(ids)}

\* C18: the card showHint picks is a 'term' card whose vocabId is not in
\* matchedPairs; with no such card nothing of the hint state changes and no
\* request is made; and showHint changes neither score, matchedPairs, timer,
\* isGameOver nor flippedCards.  The filter of line 229 is also checked on
\* every deck initGame builds, against every order of matched vocabIds.
C18_ShowHintPicksUnmatchedTerm ==
    /\ [][lastEvent'.op \in {"showHint", "showHintNoKey"}
            => /\ UNCHANGED <<gameState, cards, flippedCards, timeouts>>
               /\ IF Unmatched(cards, gameState.matchedPairs) = {}
                  THEN UNCHANGED hintVars
                  ELSE /\ lastEvent'.index \in 1..Len(cards)
                       /\ cards[lastEvent'.index].type = "term"
                       /\ cards[lastEvent'.index].vocabId
                             \notin Range(gameState.matchedPairs)]_vars
    /\ [](lastEvent.op = "initGame"
            => \A m \in MatchedOrders(cards) :
                  /\ \A i \in Unmatched(cards, m) :
                        cards[i].type = "term" /\ cards[i].vocabId \notin Range(m)
                  /\ (\A i \in 1..Len(cards) : cards[i].vocabId \in Range(m))
                        => Unmatched(cards, m) = {})

C18_Witness ==
    /\ lastEvent.op = "showHint"
    /\ lastEvent.index # 0
    /\ Len(gameState.matchedPairs) = 1
    /\ isLoadingHint
    /\ hintCalls # <<>>
\* the cards of a deck that carry a vocabId, of one type
CardsOf(deck, id, type) ==
    {i \in 1..Len(deck) : deck[i].vocabId = id /\ deck[i].type = type}

\* C11: the deck handed to setCards has 2 x min(wordCount, |pool|) cards,
\* wordCount being 20 for Hard, 15 for Medium and 10 otherwise; each vocabId
\* in it is on exactly two cards, one 'term' and one 'match'; and the
\* uniqueIds are all different.
C11_DeckWellFormed ==
    deckJob.stage = "done"
    => LET deck == deckJob.gameCards
           wordCount == CASE deckJob.difficulty = "Hard" -> 20
                          [] deckJob.difficulty = "Medium" -> 15
                          [] OTHER -> 10
           count == IF wordCount < deckJob.size THEN wordCount ELSE deckJob.size
       IN  /\ Len(deck) = 2 * count
           /\ \A k \in 1..Len(deck) :
                 /\ Cardinality(CardsOf(deck, deck[k].vocabId, "term")) = 1
                 /\ Cardinality(CardsOf(deck, deck[k].vocabId, "match")) = 1
                 /\ Cardinality({i \in 1..Len(deck) : deck[i].vocabId = deck[k].vocabId}) = 2
           /\ \A i, k \in 1..Len(deck) : deck[i].uniqueId = deck[k].uniqueId => i = k

C11_Witness ==
    /\ deckJob.stage = "done"
    /\ deckJob.size = 21
    /\ deckJob.difficulty = "Hard"
    /\ Len(deckJob.gameCards) = 40
    /\ deckJob.gameCards[1].type = "match"
    /\ deckJob.gameCards[3].vocabId = 3
\* C19: while a session with cards is started and not over, a resolution
\* callback is pending or some click passes the guard of handleCardClick;
\* and when the timers fire and the player keeps flipping the partner of the
\* selected card, every started session gets to isGameOver.
C19_NeverStuck ==
    /\ []((gameState.isGameStarted /\ ~gameState.isGameOver /\ cards # <<>>)
            => \/ timeouts # <<>>
               \/ \E index \in 1..Len(cards) : ~Rejected(index))
    /\ (gameState.isGameStarted /\ ~gameState.isGameOver /\ cards # <<>>)
          ~> gameState.isGameOver

C19_Witness ==
    /\ gameState.isGameStarted /\ ~gameState.isGameOver
    /\ session = 2
    /\ timeouts = <<>>
    /\ Len(flippedCards) = 1
    /\ Len(gameState.matchedPairs) = 1
    /\ gameState.timer = 1
====
